---- MODULE Spec2Model ----
(***************************************************************************)
(* Model of the FwewScreen component (src/components/fwew-screen.tsx):     *)
(* the search screen's local state, its event handlers, and the requests   *)
(* it has handed to axios that have not been answered yet.                 *)
(*                                                                         *)
(* Strings are sequences of one-character strings, so that getEndpoint's   *)
(* template literals are concatenations and encodeURI is a per-character   *)
(* map.  Query texts are well-formed UTF-16 (a text input cannot deliver a *)
(* lone surrogate), so encodeURI does not throw on them.                   *)
(***************************************************************************)
EXTENDS Integers, Sequences, FiniteSets, TLC

VARIABLES
    isLoading,          \* useState(true), line 61
    text,               \* useState(''), line 62
    data,               \* useState([] as Word[]), line 63
    err,                \* useState({} as FwewError), line 64
    isModalVisible,     \* useState(false), line 65
    selectedItem,       \* useState({} as Word), line 66
    isReverseEnabled,   \* settingsFwew.isReverseEnabled, line 70
    languageCode,       \* settingsGlobal.languageCode, line 71
    inflight,           \* requests given to axios.get and not yet settled, oldest first
    last                \* the handler that ran last, the argument it was given, whether it threw,
                        \* and the value of isLoading it found

vars == <<isLoading, text, data, err, isModalVisible, selectedItem,
          isReverseEnabled, languageCode, inflight, last>>

screen == <<isLoading, text, data, err, isModalVisible, selectedItem>>

----------------------------------------------------------------------------
(* Bounds *)

MaxInFlight == 2        \* requests outstanding at once
MaxRecords == 1         \* records in one response body

----------------------------------------------------------------------------
(* Values *)

\* the configured base URL, one opaque token made only of characters encodeURI keeps
apiRoot == <<"<base>">>

\* the query texts the user enters
Texts == { <<>>,
           <<"f">>,
           <<"a", "/", "b", " ", "?", "#">> }

LanguageCodes == { <<"e", "n">>, <<"d", "e">> }

\* Word records of the remote service, opaque
Words == {"w1", "w2"}

\* {} as Word, {} as FwewError: the empty objects the state starts with
NoWord == "{}"
NoErr == "{}"

\* FwewError bodies of the remote service, opaque
ErrBodies == {"e1"}

\* the body of an error response that is not a FwewError (an empty or HTML body of a gateway)
UnstructuredBody == "<html>"

NoBody == "none"

RECURSIVE SeqsUpTo(_, _)
SeqsUpTo(S, n) ==
    IF n = 0 THEN {<<>>}
    ELSE LET shorter == SeqsUpTo(S, n - 1)
         IN shorter \cup {Append(s, x) : s \in {q \in shorter : Len(q) = n - 1}, x \in S}

\* response bodies of a successful lookup
Bodies == SeqsUpTo(Words, MaxRecords)

Range(s) == {s[i] : i \in 1..Len(s)}

RemoveAt(s, i) == SubSeq(s, 1, i - 1) \o SubSeq(s, i + 1, Len(s))

----------------------------------------------------------------------------
(* encodeURI, line 167: reserved and unreserved characters are kept, every *)
(* other character is replaced by its %XX escape.                          *)

UriReserved == {";", "/", "?", ":", "@", "&", "=", "+", "$", ",", "#"}

UriUnreserved == {"a", "b", "d", "e", "f", "i", "l", "n", "r", "s", "t", "w",
                  "-", "_", ".", "!", "~", "*", "'", "(", ")"}

encodeChar(c) ==
    IF c \in UriReserved \cup UriUnreserved \cup Range(apiRoot) THEN <<c>>
    ELSE IF c = " " THEN <<"%", "2", "0">>
    ELSE IF c = "%" THEN <<"%", "2", "5">>
    ELSE <<"%", "X", "X">>

RECURSIVE encodeURI(_)
encodeURI(s) ==
    IF s = <<>> THEN <<>>
    ELSE encodeChar(Head(s)) \o encodeURI(Tail(s))

----------------------------------------------------------------------------
(* getEndpoint, lines 147-155 *)

\* getEndpoint with the two lookup branches exchanged
getEndpointSwapped(t) ==
    IF t = <<>> THEN apiRoot \o <<"/", "l", "i", "s", "t", "/">>
    ELSE IF isReverseEnabled
         THEN apiRoot \o <<"/", "f", "w", "e", "w", "/">> \o t
         ELSE apiRoot \o <<"/", "f", "w", "e", "w", "/", "r", "/">> \o languageCode \o <<"/">> \o t

getEndpoint(t) ==
    IF t = <<>> THEN apiRoot \o <<"/", "l", "i", "s", "t", "/">>
    ELSE IF isReverseEnabled
         THEN apiRoot \o <<"/", "f", "w", "e", "w", "/", "r", "/">> \o languageCode \o <<"/">> \o t
         ELSE apiRoot \o <<"/", "f", "w", "e", "w", "/">> \o t

----------------------------------------------------------------------------
(* fetchData, lines 164-167: the synchronous part.  The request carries    *)
(* the endpoint fetchData was called with and the URL given to axios.get.  *)

Request(endpoint) == [endpoint |-> endpoint, url |-> encodeURI(endpoint)]

\* fetchData without setIsLoading(true)
fetchDataKeepsFlag(endpoint) ==
    /\ Len(inflight) < MaxInFlight
    /\ UNCHANGED isLoading
    /\ inflight' = Append(inflight, Request(endpoint))

\* fetchData that drops the requests already in flight when it starts a new one
fetchDataAborting(endpoint) ==
    /\ Len(inflight) < MaxInFlight
    /\ isLoading' = TRUE
    /\ inflight' = <<Request(endpoint)>>

fetchData(endpoint) ==
    /\ Len(inflight) < MaxInFlight
    /\ isLoading' = TRUE
    /\ inflight' = Append(inflight, Request(endpoint))

Ran(op, arg) == [op |-> op, arg |-> arg, threw |-> FALSE, wasLoading |-> isLoading]

----------------------------------------------------------------------------
Init ==
    /\ isLoading = TRUE
    /\ text = <<>>
    /\ data = <<>>
    /\ err = NoErr
    /\ isModalVisible = FALSE
    /\ selectedItem = NoWord
    /\ isReverseEnabled \in BOOLEAN
    /\ languageCode \in LanguageCodes
    /\ inflight = <<>>
    /\ last = Ran("init", NoBody)

mounted == last.op # "init"

\* the mount effect that requests a lookup of the empty text in the persisted direction
MountLookup ==
    /\ ~mounted
    /\ IF isReverseEnabled
       THEN fetchData(apiRoot \o <<"/", "f", "w", "e", "w", "/", "r", "/">> \o languageCode \o <<"/">>)
       ELSE fetchData(apiRoot \o <<"/", "f", "w", "e", "w", "/">>)
    /\ last' = Ran("mount", NoBody)
    /\ UNCHANGED <<text, data, err, isModalVisible, selectedItem, isReverseEnabled, languageCode>>

\* useEffect(() => fetchData(`${apiRoot}/list/`), []), lines 77-79
Mount ==
    /\ ~mounted
    /\ fetchData(apiRoot \o <<"/", "l", "i", "s", "t", "/">>)
    /\ last' = Ran("mount", NoBody)
    /\ UNCHANGED <<text, data, err, isModalVisible, selectedItem, isReverseEnabled, languageCode>>

\* searchData, lines 183-190; onChangeText delivers a text that differs from the shown one
searchData(t) ==
    /\ mounted
    /\ t # text
    /\ text' = t
    /\ IF t = <<>>
       THEN fetchData(apiRoot \o <<"/", "l", "i", "s", "t", "/">>)
       ELSE fetchData(getEndpoint(t))
    /\ last' = Ran("searchData", t)
    /\ UNCHANGED <<data, err, isModalVisible, selectedItem, isReverseEnabled, languageCode>>

\* onUpdateSettingsFwew of the settings context: stores the new settings
onUpdateSettingsFwew(newIsReverseEnabled) ==
    isReverseEnabled' = newIsReverseEnabled

\* toggleReverse without the early return on an empty text
toggleReverseNoReturn ==
    /\ mounted
    /\ LET newIsReverseEnabled == ~isReverseEnabled IN
       /\ onUpdateSettingsFwew(newIsReverseEnabled)
       /\ IF newIsReverseEnabled
          THEN fetchData(apiRoot \o <<"/", "f", "w", "e", "w", "/", "r", "/">>
                           \o languageCode \o <<"/">> \o text)
          ELSE fetchData(apiRoot \o <<"/", "f", "w", "e", "w", "/">> \o text)
    /\ last' = Ran("toggleReverse", NoBody)
    /\ UNCHANGED <<text, data, err, isModalVisible, selectedItem, languageCode>>

\* toggleReverse that picks the URL by the flag as it was before the toggle
toggleReverseOldFlag ==
    /\ mounted
    /\ LET newIsReverseEnabled == ~isReverseEnabled IN
       /\ onUpdateSettingsFwew(newIsReverseEnabled)
       /\ IF text = <<>>
          THEN UNCHANGED <<isLoading, inflight>>
          ELSE IF isReverseEnabled
               THEN fetchData(apiRoot \o <<"/", "f", "w", "e", "w", "/", "r", "/">>
                                \o languageCode \o <<"/">> \o text)
               ELSE fetchData(apiRoot \o <<"/", "f", "w", "e", "w", "/">> \o text)
    /\ last' = Ran("toggleReverse", NoBody)
    /\ UNCHANGED <<text, data, err, isModalVisible, selectedItem, languageCode>>

\* toggleReverse, lines 193-205
toggleReverse ==
    /\ mounted
    /\ LET newIsReverseEnabled == ~isReverseEnabled IN
       /\ onUpdateSettingsFwew(newIsReverseEnabled)
       /\ IF text = <<>>
          THEN UNCHANGED <<isLoading, inflight>>
          ELSE IF newIsReverseEnabled
               THEN fetchData(apiRoot \o <<"/", "f", "w", "e", "w", "/", "r", "/">>
                                \o languageCode \o <<"/">> \o text)
               ELSE fetchData(apiRoot \o <<"/", "f", "w", "e", "w", "/">> \o text)
    /\ last' = Ran("toggleReverse", NoBody)
    /\ UNCHANGED <<text, data, err, isModalVisible, selectedItem, languageCode>>

\* onRefresh without setData([])
onRefreshNoClear ==
    /\ mounted
    /\ ~isLoading
    /\ fetchData(getEndpoint(text))
    /\ last' = Ran("onRefresh", NoBody)
    /\ UNCHANGED <<text, data, err, isModalVisible, selectedItem, isReverseEnabled, languageCode>>

\* onRefresh that always re-requests the unfiltered listing
onRefreshListing ==
    /\ mounted
    /\ ~isLoading
    /\ data' = <<>>
    /\ fetchData(apiRoot \o <<"/", "l", "i", "s", "t", "/">>)
    /\ last' = Ran("onRefresh", NoBody)
    /\ UNCHANGED <<text, err, isModalVisible, selectedItem, isReverseEnabled, languageCode>>

\* onRefresh, lines 158-161; the list that offers it is rendered only when !isLoading (line 224)
onRefresh ==
    /\ mounted
    /\ ~isLoading
    /\ data' = <<>>
    /\ fetchData(getEndpoint(text))
    /\ last' = Ran("onRefresh", NoBody)
    /\ UNCHANGED <<text, err, isModalVisible, selectedItem, isReverseEnabled, languageCode>>

\* toggleModal that always shows the modal
toggleModalShow(item) ==
    /\ isModalVisible' = TRUE
    /\ selectedItem' = item
    /\ UNCHANGED <<isLoading, text, data, err, isReverseEnabled, languageCode, inflight>>

\* toggleModal, lines 141-144
toggleModal(item) ==
    /\ isModalVisible' = ~isModalVisible
    /\ selectedItem' = item
    /\ UNCHANGED <<isLoading, text, data, err, isReverseEnabled, languageCode, inflight>>

\* the user taps an entry of the rendered list, line 232
onEntrySelected(item) ==
    /\ mounted
    /\ ~isLoading
    /\ item \in Range(data)
    /\ toggleModal(item)
    /\ last' = Ran("onEntrySelected", item)

\* Modal onDismiss, line 239
onModalDismissed ==
    /\ mounted
    /\ isModalVisible
    /\ toggleModal(selectedItem)
    /\ last' = Ran("onModalDismissed", NoBody)

\* the then handler that also resets the error
thenHandlerClearsErr(i, body) ==
    /\ i \in 1..Len(inflight)
    /\ inflight' = RemoveAt(inflight, i)
    /\ data' = body
    /\ err' = NoErr
    /\ isLoading' = FALSE
    /\ last' = Ran("then", body)
    /\ UNCHANGED <<text, isModalVisible, selectedItem, isReverseEnabled, languageCode>>

\* the then handler without setIsLoading(false)
thenHandlerKeepsLoading(i, body) ==
    /\ i \in 1..Len(inflight)
    /\ inflight' = RemoveAt(inflight, i)
    /\ data' = body
    /\ UNCHANGED isLoading
    /\ last' = Ran("then", body)
    /\ UNCHANGED <<text, err, isModalVisible, selectedItem, isReverseEnabled, languageCode>>

\* fetchData's then handler, lines 168-171: request i is answered with a 2xx body
thenHandler(i, body) ==
    /\ i \in 1..Len(inflight)
    /\ inflight' = RemoveAt(inflight, i)
    /\ data' = body
    /\ isLoading' = FALSE
    /\ last' = Ran("then", body)
    /\ UNCHANGED <<text, err, isModalVisible, selectedItem, isReverseEnabled, languageCode>>

\* the rejections axios.get can deliver to the catch handler
AxiosErrorWithResponse == [kind : {"axiosResponse"}, body : ErrBodies \cup {UnstructuredBody}]
AxiosErrorNoResponse == [kind : {"axiosNoResponse"}, body : {NoBody}]
OtherError == [kind : {"other"}, body : {NoBody}]
Rejections == AxiosErrorWithResponse \cup AxiosErrorNoResponse \cup OtherError

\* the catch handler without setData([])
catchHandlerKeepsData(i, e) ==
    /\ i \in 1..Len(inflight)
    /\ inflight' = RemoveAt(inflight, i)
    /\ IF e.kind = "axiosResponse"
       THEN /\ err' = e.body
            /\ UNCHANGED data
            /\ isLoading' = FALSE
            /\ last' = Ran("catch", e.body)
       ELSE IF e.kind = "axiosNoResponse"
            THEN /\ UNCHANGED <<err, data, isLoading>>
                 /\ last' = [Ran("catch", NoBody) EXCEPT !.threw = TRUE]
            ELSE /\ UNCHANGED <<err, data, isLoading>>
                 /\ last' = Ran("catch", NoBody)
    /\ UNCHANGED <<text, isModalVisible, selectedItem, isReverseEnabled, languageCode>>

\* the catch handler that ends the loading state for every rejection
catchHandlerAlwaysSettles(i, e) ==
    /\ i \in 1..Len(inflight)
    /\ inflight' = RemoveAt(inflight, i)
    /\ IF e.kind = "axiosResponse"
       THEN /\ err' = e.body
            /\ data' = <<>>
            /\ isLoading' = FALSE
            /\ last' = Ran("catch", e.body)
       ELSE /\ UNCHANGED err
            /\ data' = <<>>
            /\ isLoading' = FALSE
            /\ last' = Ran("catch", NoBody)
    /\ UNCHANGED <<text, isModalVisible, selectedItem, isReverseEnabled, languageCode>>

\* fetchData's catch handler, lines 172-179: request i is rejected with e
catchHandler(i, e) ==
    /\ i \in 1..Len(inflight)
    /\ inflight' = RemoveAt(inflight, i)
    /\ IF e.kind = "axiosResponse"
       THEN /\ err' = e.body
            /\ data' = <<>>
            /\ isLoading' = FALSE
            /\ last' = Ran("catch", e.body)
       ELSE IF e.kind = "axiosNoResponse"
            \* serverError.response is undefined: reading .data throws a TypeError
            THEN /\ UNCHANGED <<err, data, isLoading>>
                 /\ last' = [Ran("catch", NoBody) EXCEPT !.threw = TRUE]
            ELSE /\ UNCHANGED <<err, data, isLoading>>
                 /\ last' = Ran("catch", NoBody)
    /\ UNCHANGED <<text, isModalVisible, selectedItem, isReverseEnabled, languageCode>>

Next ==
    \/ Mount
    \/ \E t \in Texts : searchData(t)
    \/ toggleReverse
    \/ onRefresh
    \/ \E item \in Words : onEntrySelected(item)
    \/ onModalDismissed
    \/ \E i \in 1..MaxInFlight + 1, body \in Bodies : thenHandler(i, body)
    \/ \E i \in 1..MaxInFlight + 1, e \in Rejections : catchHandler(i, e)

Spec == Init /\ [][Next]_vars

\* the remote service answers a request in flight with a success or a structured error
deliverResponse ==
    \/ \E i \in 1..MaxInFlight + 1, body \in Bodies : thenHandler(i, body)
    \/ \E i \in 1..MaxInFlight + 1, e \in [kind : {"axiosResponse"}, body : ErrBodies] :
          catchHandler(i, e)

\* the steps of the screen when every request is answered with a success or a
\* structured error
LiveNext ==
    \/ Mount
    \/ \E t \in Texts : searchData(t)
    \/ toggleReverse
    \/ onRefresh
    \/ \E item \in Words : onEntrySelected(item)
    \/ onModalDismissed
    \/ deliverResponse

\* React runs the mount effect after the first render, and every request in
\* flight is eventually answered
LiveSpec == Init /\ [][LiveNext]_vars /\ WF_vars(Mount) /\ WF_vars(deliverResponse)

TypeOK ==
    /\ isLoading \in BOOLEAN
    /\ text \in Texts
    /\ data \in Bodies
    /\ err \in ErrBodies \cup {UnstructuredBody, NoErr}
    /\ isModalVisible \in BOOLEAN
    /\ selectedItem \in Words \cup {NoWord}
    /\ isReverseEnabled \in BOOLEAN
    /\ languageCode \in LanguageCodes
    /\ Len(inflight) <= MaxInFlight
    /\ \A i \in 1..Len(inflight) : inflight[i].url = encodeURI(inflight[i].endpoint)
    /\ last.threw \in BOOLEAN
    /\ last.wasLoading \in BOOLEAN

----------------------------------------------------------------------------
(* The vocabulary of the specification: the three URL shapes and the       *)
(* endpoint derivation of spec section 4.1.                                *)

ListShape == apiRoot \o <<"/", "l", "i", "s", "t", "/">>

ForwardPrefix == apiRoot \o <<"/", "f", "w", "e", "w", "/">>

ReversePrefix(lang) == apiRoot \o <<"/", "f", "w", "e", "w", "/", "r", "/">> \o lang \o <<"/">>

endpoint(t, reverse, lang) ==
    IF t = <<>> THEN ListShape
    ELSE IF reverse THEN ReversePrefix(lang) \o t
    ELSE ForwardPrefix \o t

\* the request the last step handed to axios, when that step started a fetch
Newest == inflight[Len(inflight)]

StartedFetch ==
    \/ last.op \in {"mount", "searchData", "onRefresh"}
    \/ last.op = "toggleReverse" /\ text # <<>>

\* this step hands exactly one request for endpoint e to axios and leaves the others in flight
IssuesOne(e) ==
    /\ Len(inflight') = Len(inflight) + 1
    /\ SubSeq(inflight', 1, Len(inflight)) = inflight
    /\ inflight'[Len(inflight')].endpoint = e
    /\ inflight'[Len(inflight')].url = encodeURI(e)

----------------------------------------------------------------------------
\* C1: for every query text, direction flag and language code, the URL
\* getEndpoint builds is '<base>/list/' when the text is empty (whatever the
\* flag), '<base>/fwew/r/<languageCode>/<text>' when the text is non-empty and
\* reverse is enabled, and '<base>/fwew/<text>' when it is non-empty and
\* reverse is disabled.
C1_EndpointShapes ==
    \A t \in Texts :
        /\ t = <<>> => getEndpoint(t) = ListShape
        /\ t # <<>> /\ isReverseEnabled => getEndpoint(t) = ReversePrefix(languageCode) \o t
        /\ t # <<>> /\ ~isReverseEnabled => getEndpoint(t) = ForwardPrefix \o t

\* a reverse lookup for a non-empty text has just been requested
C1_Witness ==
    /\ last.op = "searchData"
    /\ text # <<>>
    /\ isReverseEnabled
    /\ Newest.endpoint = ReversePrefix(languageCode) \o text

\* C2 (as claimed): the URL requested for a non-empty text is the prefix of
\* its shape followed by the encoded text as one final path segment: no '/',
\* '?' or '#' of the text is left unencoded.
C2_TextIsOneEncodedSegment ==
    StartedFetch /\ text # <<>> =>
        LET prefix == IF isReverseEnabled THEN ReversePrefix(languageCode) ELSE ForwardPrefix
            u == Newest.url
        IN /\ Len(u) > Len(prefix)
           /\ SubSeq(u, 1, Len(prefix)) = prefix
           /\ Range(SubSeq(u, Len(prefix) + 1, Len(u))) \cap {"/", "?", "#"} = {}

\* C3 (as claimed): after a successful response with N records, results is
\* that body (length N), isLoading is false and no error is present.
C3_SuccessLeavesNoError ==
    last.op = "then" =>
        /\ data = last.arg
        /\ Len(data) = Len(last.arg)
        /\ isLoading = FALSE
        /\ err = NoErr

\* C4: after a failure response with a structured error body, results is
\* empty, error is that body and isLoading is false.
C4_StructuredFailure ==
    last.op = "catch" /\ last.arg \in ErrBodies =>
        /\ data = <<>>
        /\ err = last.arg
        /\ isLoading = FALSE

\* a structured failure has just been delivered while another request is still in flight
C4_Witness ==
    /\ last.op = "catch"
    /\ last.arg = "e1"
    /\ err = "e1"
    /\ inflight # <<>>

C6_AtMostOneDisplayMode ==
    /\ ~(isLoading /\ data # <<>>)
    /\ ~(isLoading /\ err # NoErr)
    /\ ~(data # <<>> /\ err # NoErr)

\* C7: toggling the direction while queryText is empty issues no fetch and
\* changes nothing of the screen state; only the persisted flag is flipped.
C7_ToggleWithEmptyText ==
    [][last'.op = "toggleReverse" /\ text = <<>> =>
          /\ UNCHANGED <<isLoading, data, err, text, isModalVisible, selectedItem>>
          /\ UNCHANGED <<inflight, languageCode>>
          /\ isReverseEnabled' = ~isReverseEnabled]_vars

\* the direction has just been toggled with an empty text while results are shown
C7_Witness ==
    /\ last.op = "toggleReverse"
    /\ text = <<>>
    /\ ~isLoading
    /\ data # <<>>

\* C8: toggling the direction while queryText is non-empty flips and
\* persists isReverseEnabled and issues exactly one fetch, whose URL is
\* endpoint(queryText, not oldFlag, languageCode).
C8_ToggleWithText ==
    [][last'.op = "toggleReverse" /\ text # <<>> =>
          /\ isReverseEnabled' = ~isReverseEnabled
          /\ IssuesOne(endpoint(text, ~isReverseEnabled, languageCode))
          /\ inflight'[Len(inflight')].endpoint = getEndpoint(text)'
          /\ UNCHANGED text]_vars

\* the direction has just been toggled to reverse with a non-empty text
C8_Witness ==
    /\ last.op = "toggleReverse"
    /\ text # <<>>
    /\ isReverseEnabled
    /\ Newest.endpoint = ReversePrefix(languageCode) \o text

\* C9: onTextChanged(newText) sets queryText to newText and issues exactly
\* one new request, to the listing endpoint when newText is empty and to the
\* lookup endpoint for (direction, language, newText) otherwise; it sets
\* isLoading and removes no request already in flight.
C9_TextChanged ==
    [][last'.op = "searchData" =>
          /\ text' = last'.arg
          /\ IssuesOne(endpoint(last'.arg, isReverseEnabled, languageCode))
          /\ last'.arg = <<>> => inflight'[Len(inflight')].endpoint = ListShape
          /\ isLoading'
          /\ UNCHANGED <<isReverseEnabled, languageCode>>]_vars

\* a text change has just added a request while an earlier one is still in flight
C9_Witness ==
    /\ last.op = "searchData"
    /\ text = last.arg
    /\ Len(inflight) = 2
    /\ inflight[1].endpoint # Newest.endpoint

\* C10: onPullToRefresh clears results, sets isLoading and issues exactly
\* one fetch to endpoint(queryText, isReverseEnabled, languageCode); it
\* changes neither queryText nor the direction flag.
C10_PullToRefresh ==
    [][last'.op = "onRefresh" =>
          /\ data' = <<>>
          /\ isLoading'
          /\ IssuesOne(endpoint(text, isReverseEnabled, languageCode))
          /\ UNCHANGED <<text, isReverseEnabled>>]_vars

\* a pull-to-refresh has just re-requested a reverse lookup
C10_Witness ==
    /\ last.op = "onRefresh"
    /\ text # <<>>
    /\ isReverseEnabled
    /\ data = <<>>
    /\ Newest.endpoint = ReversePrefix(languageCode) \o text

C12_CatchNeverThrows ==
    last.op = "catch" => last.threw = FALSE

\* a response that a handler applies to the state: a success or a structured error
Responded(l) == l.op = "then" \/ (l.op = "catch" /\ l.arg \in ErrBodies)

\* C13 (as claimed): when two requests were in flight together and both have
\* been answered with a success or a structured error, results and error are
\* the values of the response delivered last, whichever request it answers:
\* the body and no error after a success, no results and the error body after
\* a structured error.
C13_LastResponseWins ==
    [][Responded(last) /\ Responded(last') /\ Len(inflight') = Len(inflight) - 1 =>
          IF last'.op = "then"
          THEN data' = last'.arg /\ err' = NoErr
          ELSE data' = <<>> /\ err' = last'.arg]_vars

\* a response with a body, which a handler applies to the state
Applied(l) == l.op = "then" \/ (l.op = "catch" /\ l.arg # NoBody)

\* C14 (as claimed): the display state is Idle before the mount, Loading
\* while isLoading, Loaded or Errored otherwise, and it changes only from Idle
\* or Loaded/Errored to Loading by a fetch trigger and from Loading to Loaded
\* or Errored by a response; a response is applied only in Loading.
C14_ResponsesOnlyInLoading ==
    [][/\ Applied(last') => isLoading /\ ~isLoading'
       /\ StartedFetch' => isLoading'
       /\ isLoading' # isLoading => StartedFetch' \/ Applied(last')
       /\ mounted => mounted']_vars

\* C14 (amended): the display state changes from Idle (by the mount) or
\* Loaded/Errored (by a fetch trigger) to Loading and from Loading to Loaded
\* or Errored by a response; a response to a request that is still in flight
\* is also applied when the screen has already left Loading, which gives
\* Loaded/Errored -> Loaded/Errored; nothing leads back to Idle, and results
\* and error change only by a response or by pull-to-refresh.
C14_ResponsesInAnyDisplayState ==
    [][/\ Applied(last') => Len(inflight) >= 1 /\ ~isLoading'
       /\ StartedFetch' => isLoading'
       /\ isLoading' # isLoading => StartedFetch' \/ Applied(last')
       /\ mounted => mounted'
       /\ ~mounted => last'.op = "mount"
       /\ <<data', err'>> # <<data, err>> => Applied(last') \/ last'.op = "onRefresh"]_vars

\* a successful response has been applied while the screen was not loading
C14_Witness ==
    /\ last.op = "then"
    /\ ~last.wasLoading
    /\ ~isLoading
    /\ data = last.arg

\* C15: right after the mount, isLoading is true, queryText is empty,
\* results is empty, the modal is hidden, and exactly one request has been
\* issued, to '<base>/list/', whatever the persisted direction flag.
C15_Mount ==
    last.op = "mount" =>
        /\ isLoading
        /\ text = <<>>
        /\ data = <<>>
        /\ ~isModalVisible
        /\ Len(inflight) = 1
        /\ inflight[1].endpoint = ListShape
        /\ inflight[1].url = ListShape

\* the screen has just been mounted with the reverse direction persisted
C15_Witness ==
    /\ last.op = "mount"
    /\ isReverseEnabled
    /\ Len(inflight) = 1

\* C16: onEntrySelected(item) and onModalDismissed() flip isModalVisible;
\* onEntrySelected sets the selected record to item and onModalDismissed keeps
\* it; neither issues a fetch or changes isLoading, results, error, queryText
\* or the direction flag.
C16_ModalToggles ==
    [][last'.op \in {"onEntrySelected", "onModalDismissed"} =>
          /\ isModalVisible' = ~isModalVisible
          /\ last'.op = "onEntrySelected" => selectedItem' = last'.arg
          /\ last'.op = "onModalDismissed" => selectedItem' = selectedItem
          /\ UNCHANGED <<isLoading, data, err, text, isReverseEnabled, inflight>>]_vars

\* the modal of a selected record has just been dismissed
C16_Witness ==
    /\ last.op = "onModalDismissed"
    /\ ~isModalVisible
    /\ selectedItem \in Words

\* the last step was a fetch started by the user
UserStartedFetch ==
    \/ last.op \in {"searchData", "onRefresh"}
    \/ last.op = "toggleReverse" /\ text # <<>>

\* C17: when every request is eventually answered with a success or a
\* structured error (the steps and the fairness of LiveSpec), if user-triggered
\* fetches eventually stop, then eventually isLoading is false and stays false.
C17_LoadingEventuallyEnds ==
    <>[](~UserStartedFetch) => <>[](~isLoading)

\* every request has been answered, the last one by a success or a structured error
C17_Witness ==
    /\ Responded(last)
    /\ inflight = <<>>
    /\ ~isLoading

====
